---- MODULE Spec2Model ----
(***************************************************************************)
(* Model of the buy-back backend (backend/main.py and                      *)
(* backend/services/burn_tokens.py).                                       *)
(*                                                                         *)
(* GET /dashboard and POST /simulate/bump-mc are plain `def` endpoints, so *)
(* the framework runs them on worker threads: every handler is a thread    *)
(* whose accesses to the module-level STATE dictionary interleave with the *)
(* accesses of the other handlers. One action below is one access to       *)
(* STATE together with the local computation around it; the calls to the   *)
(* trade API, the RPC endpoint and the burn executor do not touch STATE,   *)
(* so a whole external call is part of the step that records its outcome.  *)
(*                                                                         *)
(* Units (TLC has integers only):                                          *)
(*   market_cap_usd            whole US dollars                            *)
(*   price_usd                 1e-8 USD (the grid of round(price, 8))      *)
(*   claimed_sol, buy_amount   1e-6 SOL (the grid of round(x, 6))          *)
(*   wallet balances           lamports (1e-9 SOL)                         *)
(*   buybacks_usd, burned_usd  1e-14 USD (1e-6 SOL times 1e-8 USD)         *)
(*   supply_burned_pct         1e-4 percent (the grid of round(x, 4))      *)
(*   progress percentage       1e-2 percent (the grid of round(x, 2))      *)
(*                                                                         *)
(* Three specifications: Spec, the backend under concurrent requests;     *)
(* SpecProgress, dashboard reads at market caps around the bucket limits;  *)
(* SpecExec, one call of burn_tokens or buy_back_sol statement by          *)
(* statement.                                                              *)
(***************************************************************************)
EXTENDS Integers, Sequences, FiniteSets, TLC

\* ---------------------------------------------------------------- bounds
\* GET /dashboard requests served in one behaviour in which every claim
\* fails at once (no wallet address is set)
MaxReads == 3
\* default deltas by which /simulate/bump-mc drives the market cap above its
\* starting value in such a behaviour
MaxBumps == 2
\* clock ticks in one behaviour
MaxTicks == 1

\* ------------------------------------------------------ program constants
GOAL_STEP == 100000
LAMPORTS_PER_SOL == 1000000000
HELIUS_CACHE_TTL == 20
TX_CAP == 50
\* 0.05 percent in units of 1e-4 percent, and 100 percent
PCT_STEP == 500
PCT_MAX == 1000000
\* round(x, 6) of a SOL amount: lamports per 1e-6 SOL
LAMPORTS_PER_MICRO == 1000
\* claimed_sol * 0.25
BUY_DIVISOR == 4
\* default delta_usd of /simulate/bump-mc
DEFAULT_DELTA == 110000

\* the worker threads that serve GET /dashboard
Procs == {"t1", "t2"}

\* ------------------------------------------------------------- inputs
\* delta_usd values sent to /simulate/bump-mc
Deltas == {DEFAULT_DELTA, -DEFAULT_DELTA}
\* seconds added by one clock tick
TickStep == 20
\* time.time() when the process starts (any value of at least the TTL)
StartNow == 100
\* lamports in the wallet before a claim
StartWallet == 6000
\* creator fees (lamports) a successful claim transfers to the wallet
Fees == {1000, 7400}
\* crossings a long-running process has processed, one bucket at a time,
\* when a behaviour starts from the long-running snapshot
LateCycles == 1999
\* a getAsset answer of status 200 that carries {"error": ...} and no result:
\* lines 155-160 read it as token_info {}, price 0.0 and supply 0
ErrorAnswer == [token_info |-> FALSE, price |-> 0, supply |-> 0]
\* getAsset answers that parse: whether token_info is present,
\* price_per_token in 1e-9 USD, adjusted supply in 1e9 tokens
\* (supply / 10^decimals)
Feed == {ErrorAnswer,
         [token_info |-> TRUE, price |-> 225016, supply |-> 1]}
\* .env configurations (which values are set), the number of cycles the
\* process has behind it when the behaviour starts, and the extent of the
\* behaviour: GET /dashboard requests served, and default deltas above the
\* starting market cap
Configs == {[wallet_address |-> TRUE,  private_key |-> TRUE,  helius_key |-> TRUE,
             cycles |-> 0, reads |-> 2, bumps |-> 0],
            [wallet_address |-> TRUE,  private_key |-> TRUE,  helius_key |-> FALSE,
             cycles |-> 0, reads |-> 2, bumps |-> 1],
            [wallet_address |-> FALSE, private_key |-> TRUE,  helius_key |-> FALSE,
             cycles |-> 0, reads |-> MaxReads, bumps |-> MaxBumps],
            [wallet_address |-> TRUE,  private_key |-> FALSE, helius_key |-> TRUE,
             cycles |-> 0, reads |-> 3, bumps |-> 1],
            [wallet_address |-> TRUE,  private_key |-> TRUE,  helius_key |-> FALSE,
             cycles |-> LateCycles, reads |-> 2, bumps |-> 1]}

\* ------------------------------------------------------------- helpers
Min(a, b) == IF a <= b THEN a ELSE b
Max(a, b) == IF a >= b THEN a ELSE b

\* Python round(): n/d to the nearest integer, ties to the even one (d > 0)
RoundHalfEven(n, d) ==
    LET q == n \div d
        r == n % d
    IN  IF 2 * r < d THEN q
        ELSE IF 2 * r > d THEN q + 1
        ELSE IF q % 2 = 0 THEN q ELSE q + 1

\* a signature is None or a non-empty string
NoSig == "None"
Sig == "sig"
Truthy(sig) == sig # NoSig

\* the fault of a burn record that is always confirmed
TxRecordBurnConfirmed(kind, amount_sol, desc, sig) ==
    [signature |-> sig,
     kind |-> kind,
     amount_sol |-> amount_sol,
     status |-> IF Truthy(sig) \/ kind = "burn" THEN "confirmed" ELSE "recorded",
     description |-> desc]
\* the dictionary push_tx inserts (the timestamp is not modelled)
TxRecord(kind, amount_sol, desc, sig) ==
    [signature |-> sig,
     kind |-> kind,
     amount_sol |-> amount_sol,
     status |-> IF Truthy(sig) THEN "confirmed" ELSE "recorded",
     description |-> desc]

\* STATE["tx"].insert(0, rec)
Insert(log, rec) == <<rec>> \o log
\* STATE["tx"][:50]
Slice(log) == SubSeq(log, 1, Min(Len(log), TX_CAP))

\* int(mc // GOAL_STEP)
BucketOf(mc) == mc \div GOAL_STEP
\* the faulty test `current_bucket < STATE["last_goal_bucket"]`, which lets a
\* read of an unchanged bucket through
CrossedAtOrAbove(current_bucket, last) == ~(current_bucket < last)
\* the negation of `current_bucket <= STATE["last_goal_bucket"]`
Crossed(current_bucket, last) == ~(current_bucket <= last)

\* round(price, 8) of a price given in 1e-9 USD
RoundPrice(price) == RoundHalfEven(price, 10)
\* round(price * adjusted_supply, 2): a whole number of dollars here
MarketCap(price, supply) == price * supply

\* get_balance_sol: lamports / LAMPORTS_PER_SOL, or 0.0 when the request fails
BalanceReads(lamports) == {lamports, 0}
\* max(0.0, round(after - before, 6)) in 1e-6 SOL
Claimed(before, after) == Max(0, RoundHalfEven(after - before, LAMPORTS_PER_MICRO))
\* round(claimed_sol * 0.25, 6)
BuyAmount(claimed_sol) == RoundHalfEven(claimed_sol, BUY_DIVISOR)
\* round(min(100.0, pct + 0.05), 4)
NudgePct(pct) == Min(PCT_MAX, pct + PCT_STEP)

\* ------------------------------------------------------------- state
VARIABLES
    cfg,                \* the .env values that are set
    price_usd, buybacks_usd, burned_usd, market_cap_usd,
    supply_burned_pct, last_goal_bucket, tx,      \* STATE
    last_helius_t,      \* _last_helius_t
    now,                \* time.time()
    ticks,              \* clock ticks so far
    pc,                 \* position of each /dashboard thread
    loc,                \* locals of each /dashboard thread
    bump,               \* the /simulate/bump-mc thread: idle or the loaded sum
    resp,               \* last response of each /dashboard thread
    cyc,                \* history: what the thread's current evaluation did
    hist,               \* history: counters over the whole behaviour
    call                \* an executor call followed statement by statement

vars == <<cfg, price_usd, buybacks_usd, burned_usd, market_cap_usd,
          supply_burned_pct, last_goal_bucket, tx, last_helius_t, now, ticks,
          pc, loc, bump, resp, cyc, hist, call>>

state == <<price_usd, buybacks_usd, burned_usd, market_cap_usd,
           supply_burned_pct, last_goal_bucket, tx>>

LocInit == [now |-> 0, info |-> FALSE, mc_new |-> 0, current_bucket |-> 0,
            claimed_sol |-> 0, buy_amount |-> 0, reg |-> 0, cont |-> "respond"]
CycInit == [recs |-> <<>>, tested |-> 0, ran |-> FALSE,
            buy_called |-> FALSE, burn_called |-> FALSE,
            claim |-> "none", buy |-> "none", burn |-> "none",
            fee |-> 0, credit |-> 0, later |-> FALSE]
NoResp == [returned |-> FALSE]
Idle == [busy |-> FALSE]
\* no executor call is followed: the stages of process_goal_if_crossed take
\* a whole call as one step
NoCall == [fn |-> "none"]

\* the log a process has after `cycles` cycles in which every stage succeeded
\* with 7e-6 SOL claimed: newest first, at most 50 records
CycleLog(cycles) ==
    LET full == [i \in 1..(3 * cycles) |->
                   IF i % 3 = 1 THEN TxRecord("burn", BuyAmount(7), "Burned tokens", Sig)
                   ELSE IF i % 3 = 2
                     THEN TxRecord("buyback", BuyAmount(7), "Executed buy-back", Sig)
                     ELSE TxRecord("claim", 7, "Claimed creator fees", Sig)]
    IN  Slice(full)

\* STATE as constructed (lines 57-66) or, after cfg.cycles cycles driven by
\* /simulate/bump-mc at price 0, as those cycles leave it
Init ==
    /\ cfg \in Configs
    /\ price_usd = 0
    /\ buybacks_usd = 0
    /\ burned_usd = 0
    /\ market_cap_usd = cfg.cycles * GOAL_STEP
    /\ supply_burned_pct = Min(PCT_MAX, cfg.cycles * PCT_STEP)
    /\ last_goal_bucket = cfg.cycles
    /\ tx = CycleLog(Min(cfg.cycles, TX_CAP))
    /\ last_helius_t = 0
    /\ now = StartNow
    /\ ticks = 0
    /\ pc = [p \in Procs |-> "idle"]
    /\ loc = [p \in Procs |-> LocInit]
    /\ bump = Idle
    /\ resp = [p \in Procs |-> NoResp]
    /\ cyc = [p \in Procs |-> CycInit]
    /\ hist = [reads |-> 0, max_bucket |-> cfg.cycles, stable |-> FALSE,
               bumped |-> 0]
    /\ call = NoCall

\* a write of the market cap. History: the highest bucket it has reached;
\* hist.stable says that some read has advanced last_goal_bucket to the bucket
\* of the present market cap or above and the market cap has not changed
\* since; cyc[p].later says that p's request arrived while that was so and
\* that the market cap has not changed since; hist.bumped is the sum of the
\* deltas of the bumps that stored before the first refresh did (0 after it)
McWritten(mc, bumped) ==
    /\ hist' = [hist EXCEPT !.max_bucket = Max(@, BucketOf(mc)),
                            !.stable = @ /\ mc = market_cap_usd,
                            !.bumped = bumped]
    /\ cyc' = [p \in Procs |->
                 [cyc[p] EXCEPT !.later = @ /\ mc = market_cap_usd]]


\* ------------------------------------------- where each branch continues
\* the fault of line 244 without its return
FallThroughAfterClaimFailed == "buy"
\* line 244: return after a failed claim
AfterClaimFailed == "respond"
\* line 246: fall through to the buy-back stage
AfterClaimOk == "buy"
\* the fault of line 250 without its return
FallThroughAfterNoBuyback == "burn"
\* line 250: return after "No buyback"
AfterNoBuyback == "respond"
\* line 255: credit the buy-back
AfterBuyOk == "buybacks_load"
\* the fault of line 258 without its return
FallThroughAfterBuyFailed == "burn"
\* line 258: return after a failed buy-back
AfterBuyFailed == "respond"
\* line 260: fall through to the burn stage
AfterBuybackCredit == "burn"
\* line 265: credit the burn, whatever burn_recently_bought returned
AfterBurnRecord == "burned_load"

\* push_tx, lines 73-80: the insert. Line 81 is the step TxTrim; it is the
\* identity on a log of at most 50 records and is then skipped
Push(p, rec, cont, l, c) ==
    /\ tx' = Insert(tx, rec)
    /\ pc' = [pc EXCEPT ![p] = IF Len(tx) + 1 > TX_CAP THEN "tx_trim" ELSE cont]
    /\ loc' = [loc EXCEPT ![p] = [l EXCEPT !.cont = cont]]
    /\ cyc' = [cyc EXCEPT ![p] = [c EXCEPT !.recs = Append(@, rec)]]

\* push_tx, line 81
TxTrim(p) ==
    /\ pc[p] = "tx_trim"
    /\ tx' = Slice(tx)
    /\ pc' = [pc EXCEPT ![p] = loc[p].cont]
    /\ UNCHANGED <<cfg, call, price_usd, buybacks_usd, burned_usd, market_cap_usd,
                   supply_burned_pct, last_goal_bucket, last_helius_t, now,
                   ticks, loc, bump, resp, cyc, hist>>

\* ------------------------------------------------------ GET /dashboard
\* the pool hands a request to its first free worker thread
Earlier(q, p) == q = "t1" /\ p = "t2"

\* refresh_market_data, lines 134-139: no request within the TTL of the last
\* successful refresh, nor without an API key
RefreshSkipped == now - last_helius_t < HELIUS_CACHE_TTL \/ ~cfg.helius_key

\* a request arrives: a worker thread enters get_dashboard and
\* refresh_market_data (lines 286-288, 134-139)
Start(p) ==
    /\ pc[p] = "idle"
    /\ hist.reads < cfg.reads
    /\ \A q \in Procs : Earlier(q, p) => pc[q] # "idle"
    /\ IF RefreshSkipped
         THEN /\ pc' = [pc EXCEPT ![p] = "read_mc"]
              /\ loc' = loc
         ELSE /\ pc' = [pc EXCEPT ![p] = "fetch"]
              /\ loc' = [loc EXCEPT ![p].now = now]
    /\ cyc' = [cyc EXCEPT ![p] = [CycInit EXCEPT !.later = hist.stable]]
    /\ resp' = [resp EXCEPT ![p] = NoResp]
    /\ hist' = [hist EXCEPT !.reads = @ + 1]
    /\ UNCHANGED <<cfg, call, state, last_helius_t, now, ticks, bump>>

\* lines 151-154, 168-170: the request or its parsing raises
RefreshFail(p) ==
    /\ pc[p] = "fetch"
    /\ pc' = [pc EXCEPT ![p] = "read_mc"]
    /\ loc' = [loc EXCEPT ![p].now = 0]
    /\ UNCHANGED <<cfg, call, state, last_helius_t, now, ticks, bump, resp, cyc, hist>>

\* lines 152-164: an answer arrives and the price is stored
RefreshStorePrice(p) ==
    /\ pc[p] = "fetch"
    /\ \E f \in Feed :
         /\ price_usd' = RoundPrice(f.price)
         /\ loc' = [loc EXCEPT ![p].info = f.token_info,
                                ![p].mc_new = MarketCap(f.price, f.supply)]
    /\ pc' = [pc EXCEPT ![p] = "store_mc"]
    /\ UNCHANGED <<cfg, call, buybacks_usd, burned_usd, market_cap_usd,
                   supply_burned_pct, last_goal_bucket, tx, last_helius_t, now,
                   ticks, bump, resp, cyc, hist>>

\* lines 165-167: the market cap and the cache timestamp are stored
RefreshStoreMc(p) ==
    /\ pc[p] = "store_mc"
    /\ market_cap_usd' = loc[p].mc_new
    /\ last_helius_t' = loc[p].now
    /\ McWritten(loc[p].mc_new, 0)
    /\ pc' = [pc EXCEPT ![p] = "read_mc"]
    /\ loc' = [loc EXCEPT ![p].info = FALSE, ![p].mc_new = 0, ![p].now = 0]
    /\ UNCHANGED <<cfg, call, price_usd, buybacks_usd, burned_usd,
                   supply_burned_pct, last_goal_bucket, tx, now, ticks, bump,
                   resp>>

\* process_goal_if_crossed, lines 230-231
ReadMc(p) ==
    /\ pc[p] = "read_mc"
    /\ loc' = [loc EXCEPT ![p].current_bucket = BucketOf(market_cap_usd)]
    /\ pc' = [pc EXCEPT ![p] = "test"]
    /\ UNCHANGED <<cfg, call, state, last_helius_t, now, ticks, bump, resp, cyc, hist>>

\* lines 232-233
TestBucket(p) ==
    /\ pc[p] = "test"
    /\ cyc' = [cyc EXCEPT ![p].tested = last_goal_bucket]
    /\ pc' = [pc EXCEPT ![p] =
                IF Crossed(loc[p].current_bucket, last_goal_bucket)
                  THEN "advance" ELSE "respond"]
    /\ UNCHANGED <<cfg, call, state, last_helius_t, now, ticks, loc, bump, resp, hist>>

\* line 236
Advance(p) ==
    /\ pc[p] = "advance"
    /\ last_goal_bucket' = loc[p].current_bucket
    /\ cyc' = [cyc EXCEPT ![p].ran = TRUE]
    /\ hist' = [hist EXCEPT !.stable =
                   @ \/ BucketOf(market_cap_usd) <= loc[p].current_bucket]
    /\ pc' = [pc EXCEPT ![p] = "claim"]
    /\ UNCHANGED <<cfg, call, price_usd, buybacks_usd, burned_usd, market_cap_usd,
                   supply_burned_pct, tx, last_helius_t, now, ticks, loc, bump,
                   resp>>

\* lines 240, 242-243: claim_creator_fees raises: WALLET_ADDRESS is missing
\* (175-176), the trade API or the RPC fails (122-125, 110-116), or
\* WALLET_PRIVATE_KEY is missing (100-101)
ClaimFail(p) ==
    /\ pc[p] = "claim"
    /\ Push(p, TxRecord("claim", 0, "Claim failed", NoSig), AfterClaimFailed,
            loc[p], [cyc[p] EXCEPT !.claim = "failed"])
    /\ UNCHANGED <<cfg, call, price_usd, buybacks_usd, burned_usd, market_cap_usd,
                   supply_burned_pct, last_goal_bucket, last_helius_t, now,
                   ticks, bump, resp, hist>>

\* lines 240-241 and 247 with 173-186: the claim transaction is accepted and
\* transfers `fee` lamports to a wallet holding StartWallet; each of the two
\* balance reads returns the balance or, when it fails, 0.0
ClaimOk(p) ==
    /\ pc[p] = "claim"
    /\ cfg.wallet_address /\ cfg.private_key
    /\ \E fee \in Fees :
       \E before \in BalanceReads(StartWallet) :
       \E after \in BalanceReads(StartWallet + fee) :
         LET claimed_sol == Claimed(before, after)
         IN  Push(p, TxRecord("claim", claimed_sol, "Claimed creator fees", Sig),
                  AfterClaimOk,
                  [loc[p] EXCEPT !.claimed_sol = claimed_sol,
                                 !.buy_amount = BuyAmount(claimed_sol)],
                  [cyc[p] EXCEPT !.claim = "ok", !.fee = fee])
    /\ UNCHANGED <<cfg, call, price_usd, buybacks_usd, burned_usd, market_cap_usd,
                   supply_burned_pct, last_goal_bucket, last_helius_t, now,
                   ticks, bump, resp, hist>>

\* lines 248-250
NoBuyback(p) ==
    /\ pc[p] = "buy"
    /\ loc[p].buy_amount <= 0
    /\ Push(p, TxRecord("buyback", 0, "No buyback", NoSig), AfterNoBuyback,
            loc[p], [cyc[p] EXCEPT !.buy = "skipped"])
    /\ UNCHANGED <<cfg, call, price_usd, buybacks_usd, burned_usd, market_cap_usd,
                   supply_burned_pct, last_goal_bucket, last_helius_t, now,
                   ticks, bump, resp, hist>>

\* lines 253, 256-258 with 188-202: buy_back_sol raises
BuyFail(p) ==
    /\ pc[p] = "buy"
    /\ ~(loc[p].buy_amount <= 0)
    /\ Push(p, TxRecord("buyback", 0, "Buyback failed", NoSig), AfterBuyFailed,
            loc[p], [cyc[p] EXCEPT !.buy = "failed", !.buy_called = TRUE])
    /\ UNCHANGED <<cfg, call, price_usd, buybacks_usd, burned_usd, market_cap_usd,
                   supply_burned_pct, last_goal_bucket, last_helius_t, now,
                   ticks, bump, resp, hist>>

\* lines 253-254: the buy is accepted and recorded
BuyOk(p) ==
    /\ pc[p] = "buy"
    /\ ~(loc[p].buy_amount <= 0)
    /\ Push(p, TxRecord("buyback", loc[p].buy_amount, "Executed buy-back", Sig),
            AfterBuyOk, loc[p],
            [cyc[p] EXCEPT !.buy = "ok", !.buy_called = TRUE])
    /\ UNCHANGED <<cfg, call, price_usd, buybacks_usd, burned_usd, market_cap_usd,
                   supply_burned_pct, last_goal_bucket, last_helius_t, now,
                   ticks, bump, resp, hist>>

\* line 255, the loads and the sum of STATE["buybacks_usd"] += ...
BuybacksLoad(p) ==
    /\ pc[p] = "buybacks_load"
    /\ loc' = [loc EXCEPT ![p].reg = buybacks_usd + loc[p].buy_amount * price_usd]
    /\ cyc' = [cyc EXCEPT ![p].credit = loc[p].buy_amount * price_usd]
    /\ pc' = [pc EXCEPT ![p] = "buybacks_store"]
    /\ UNCHANGED <<cfg, call, state, last_helius_t, now, ticks, bump, resp, hist>>

\* line 255, the store
BuybacksStore(p) ==
    /\ pc[p] = "buybacks_store"
    /\ buybacks_usd' = loc[p].reg
    /\ loc' = [loc EXCEPT ![p].reg = 0]
    /\ pc' = [pc EXCEPT ![p] = AfterBuybackCredit]
    /\ UNCHANGED <<cfg, call, price_usd, burned_usd, market_cap_usd,
                   supply_burned_pct, last_goal_bucket, tx, last_helius_t, now,
                   ticks, bump, resp, cyc, hist>>

\* burn_recently_bought, line 215: burn_tokens (or the import of its module)
\* ends in SystemExit: missing .env values (burn_tokens.py 28-29), an invalid
\* key (40), a zero token balance (88). SystemExit is no Exception: neither
\* line 217 nor line 268 catches it and it leaves get_dashboard
BurnExit(p) ==
    /\ pc[p] = "burn"
    /\ pc' = [pc EXCEPT ![p] = "crashed"]
    /\ cyc' = [cyc EXCEPT ![p].burn = "exit", ![p].burn_called = TRUE]
    /\ UNCHANGED <<cfg, call, state, last_helius_t, now, ticks, loc, bump, resp,
                   hist>>

\* lines 215-220 and 263: burn_tokens raises an Exception (RPC or transport
\* error, burn_tokens.py 43-46, 115-116); burn_recently_bought returns None
\* and line 263 records the burn without a signature
BurnRaise(p) ==
    /\ pc[p] = "burn"
    /\ Push(p, TxRecord("burn", loc[p].buy_amount, "Burned tokens", NoSig),
            AfterBurnRecord, loc[p],
            [cyc[p] EXCEPT !.burn = "failed", !.burn_called = TRUE])
    /\ UNCHANGED <<cfg, call, price_usd, buybacks_usd, burned_usd, market_cap_usd,
                   supply_burned_pct, last_goal_bucket, last_helius_t, now,
                   ticks, bump, resp, hist>>

\* lines 215-216 and 263: the burn is confirmed and recorded
BurnOk(p) ==
    /\ pc[p] = "burn"
    /\ Push(p, TxRecord("burn", loc[p].buy_amount, "Burned tokens", Sig),
            AfterBurnRecord, loc[p],
            [cyc[p] EXCEPT !.burn = "ok", !.burn_called = TRUE])
    /\ UNCHANGED <<cfg, call, price_usd, buybacks_usd, burned_usd, market_cap_usd,
                   supply_burned_pct, last_goal_bucket, last_helius_t, now,
                   ticks, bump, resp, hist>>

\* line 265, the loads and the sum of STATE["burned_usd"] += ...
BurnedLoad(p) ==
    /\ pc[p] = "burned_load"
    /\ loc' = [loc EXCEPT ![p].reg = burned_usd + loc[p].buy_amount * price_usd]
    /\ pc' = [pc EXCEPT ![p] = "burned_store"]
    /\ UNCHANGED <<cfg, call, state, last_helius_t, now, ticks, bump, resp, cyc, hist>>

\* line 265, the store
BurnedStore(p) ==
    /\ pc[p] = "burned_store"
    /\ burned_usd' = loc[p].reg
    /\ loc' = [loc EXCEPT ![p].reg = 0]
    /\ pc' = [pc EXCEPT ![p] = "pct_load"]
    /\ UNCHANGED <<cfg, call, price_usd, buybacks_usd, market_cap_usd,
                   supply_burned_pct, last_goal_bucket, tx, last_helius_t, now,
                   ticks, bump, resp, cyc, hist>>

\* line 267, the load and the computation
PctLoad(p) ==
    /\ pc[p] = "pct_load"
    /\ loc' = [loc EXCEPT ![p].reg = NudgePct(supply_burned_pct)]
    /\ pc' = [pc EXCEPT ![p] = "pct_store"]
    /\ UNCHANGED <<cfg, call, state, last_helius_t, now, ticks, bump, resp, cyc, hist>>

\* line 267, the store
PctStore(p) ==
    /\ pc[p] = "pct_store"
    /\ supply_burned_pct' = loc[p].reg
    /\ loc' = [loc EXCEPT ![p].reg = 0]
    /\ pc' = [pc EXCEPT ![p] = "respond"]
    /\ UNCHANGED <<cfg, call, price_usd, buybacks_usd, burned_usd, market_cap_usd,
                   last_goal_bucket, tx, last_helius_t, now, ticks, bump, resp,
                   cyc, hist>>

\* the fault of a progress measured from 0 instead of the bucket's start
ProgressFromZero(mc) ==
    RoundHalfEven(Max(0, Min(GOAL_STEP * 10000, mc * 10000)), GOAL_STEP)
\* max(0.0, min(100.0, (mc - bucket_start) / GOAL_STEP * 100.0)) rounded to
\* two decimals, in units of 0.01 percent
ProgressPct(mc) ==
    LET bucket_start == BucketOf(mc) * GOAL_STEP
    IN  RoundHalfEven(Max(0, Min(GOAL_STEP * 10000, (mc - bucket_start) * 10000)),
                      GOAL_STEP)

\* get_dashboard, lines 294-310: the response
Respond(p) ==
    /\ pc[p] = "respond"
    /\ resp' = [resp EXCEPT ![p] =
                  [returned |-> TRUE,
                   market_cap_usd |-> market_cap_usd,
                   next_goal_usd |-> BucketOf(market_cap_usd) * GOAL_STEP + GOAL_STEP,
                   next_goal_progress_pct |-> ProgressPct(market_cap_usd),
                   transactions |-> Len(tx)]]
    /\ loc' = [loc EXCEPT ![p] = LocInit]
    /\ cyc' = [cyc EXCEPT ![p] = CycInit]
    /\ pc' = [pc EXCEPT ![p] = "idle"]
    /\ UNCHANGED <<cfg, call, state, last_helius_t, now, ticks, bump, hist>>

\* ------------------------------------------------ POST /simulate/bump-mc
\* the fault of a bump that sets the market cap to its delta
BumpSet(mc, delta_usd) == delta_usd
\* STATE["market_cap_usd"] + float(delta_usd)
BumpSum(mc, delta_usd) == mc + delta_usd

\* line 315, the load and the sum of STATE["market_cap_usd"] += ...
BumpLoad(delta_usd) ==
    /\ ~bump.busy
    /\ cfg.bumps > 0
    /\ market_cap_usd + delta_usd >= cfg.cycles * GOAL_STEP - DEFAULT_DELTA
    /\ market_cap_usd + delta_usd <= cfg.cycles * GOAL_STEP + cfg.bumps * DEFAULT_DELTA
    /\ bump' = [busy |-> TRUE, delta_usd |-> delta_usd,
                sum |-> BumpSum(market_cap_usd, delta_usd)]
    /\ UNCHANGED <<cfg, call, state, last_helius_t, now, ticks, pc, loc, resp, cyc,
                   hist>>

\* lines 315-316, the store and the response
BumpStore ==
    /\ bump.busy
    /\ market_cap_usd' = bump.sum
    /\ McWritten(bump.sum, IF last_helius_t = 0
                              THEN hist.bumped + bump.delta_usd ELSE 0)
    /\ bump' = Idle
    /\ UNCHANGED <<cfg, call, price_usd, buybacks_usd, burned_usd,
                   supply_burned_pct, last_goal_bucket, tx, last_helius_t, now,
                   ticks, pc, loc, resp>>

\* ------------------------------------------------------------- the clock
\* time passes; only refresh_market_data reads the clock, and without an API
\* key its outcome does not depend on it
Tick ==
    /\ cfg.helius_key
    /\ ticks < MaxTicks
    /\ now' = now + TickStep
    /\ ticks' = ticks + 1
    /\ UNCHANGED <<cfg, call, state, last_helius_t, pc, loc, bump, resp, cyc, hist>>

Next ==
    \/ \E p \in Procs : Start(p)
    \/ \E p \in Procs : RefreshFail(p)
    \/ \E p \in Procs : RefreshStorePrice(p)
    \/ \E p \in Procs : RefreshStoreMc(p)
    \/ \E p \in Procs : ReadMc(p)
    \/ \E p \in Procs : TestBucket(p)
    \/ \E p \in Procs : Advance(p)
    \/ \E p \in Procs : ClaimFail(p)
    \/ \E p \in Procs : ClaimOk(p)
    \/ \E p \in Procs : NoBuyback(p)
    \/ \E p \in Procs : BuyFail(p)
    \/ \E p \in Procs : BuyOk(p)
    \/ \E p \in Procs : BuybacksLoad(p)
    \/ \E p \in Procs : BuybacksStore(p)
    \/ \E p \in Procs : BurnExit(p)
    \/ \E p \in Procs : BurnRaise(p)
    \/ \E p \in Procs : BurnOk(p)
    \/ \E p \in Procs : BurnedLoad(p)
    \/ \E p \in Procs : BurnedStore(p)
    \/ \E p \in Procs : PctLoad(p)
    \/ \E p \in Procs : PctStore(p)
    \/ \E p \in Procs : TxTrim(p)
    \/ \E p \in Procs : Respond(p)
    \/ \E d \in Deltas : BumpLoad(d)
    \/ BumpStore
    \/ Tick

Spec == Init /\ [][Next]_vars


\* ============================================================ properties
\* p takes a step
Steps(p) == pc'[p] # pc[p]
\* p is between line 236 and the end of process_goal_if_crossed
InPipeline(p) ==
    pc[p] \in {"claim", "buy", "buybacks_load", "buybacks_store", "burn",
               "burned_load", "burned_store", "pct_load", "pct_store", "tx_trim"}
\* p's evaluation has ended: the handler builds its response, or it was left
\* by SystemExit
CycleOver(p) == pc[p] \in {"respond", "crashed"}

\* C1: two reads that test the same bucket against the same un-advanced
\* last_goal_bucket do not both run the pipeline (the test of line 232 and
\* the assignment of line 236 act as one step)
C1_OneRunPerCrossing ==
    \A p, q \in Procs :
        (p # q /\ cyc[p].ran /\ cyc[q].ran)
            => ~(/\ loc[p].current_bucket = loc[q].current_bucket
                 /\ cyc[p].tested = cyc[q].tested)

\* C2: every write to last_goal_bucket stores a value greater than or equal
\* to the one it replaces
C2_NeverDecreases == [][last_goal_bucket' >= last_goal_bucket]_vars

\* C3 as stated: every advance of last_goal_bucket, which starts one
\* pipeline run, is for exactly one threshold
C3_OneRunPerThreshold ==
    [][last_goal_bucket' > last_goal_bucket
          => last_goal_bucket' = last_goal_bucket + 1]_vars

\* C3 as amended: last_goal_bucket never exceeds the highest bucket the
\* market cap has reached; a read runs the pipeline only after it observed a
\* bucket above the last_goal_bucket it tested, it then runs it once, whatever
\* the number of thresholds in between, and a read that observed no higher
\* bucket neither advances nor records anything
C3_OneRunPerDetectedCrossing ==
    /\ last_goal_bucket <= hist.max_bucket
    /\ \A p \in Procs :
         /\ cyc[p].ran => cyc[p].tested < loc[p].current_bucket
         /\ cyc[p].ran => (pc[p] = "claim") # (cyc[p].claim # "none")
         /\ (InPipeline(p) \/ pc[p] = "crashed") => cyc[p].ran
         /\ ~cyc[p].ran => cyc[p].recs = <<>>
         /\ (pc[p] = "advance")
              => (~cyc[p].ran /\ cyc[p].tested < loc[p].current_bucket)

\* C3 witness: one advance over two thresholds, with its single claim stage done
C3_Witness ==
    \E p \in Procs :
        /\ cyc[p].ran
        /\ loc[p].current_bucket >= cyc[p].tested + 2
        /\ last_goal_bucket = loc[p].current_bucket
        /\ Len(cyc[p].recs) >= 1

\* C4: a read that arrives after last_goal_bucket was advanced for the present
\* market cap, the market cap being unchanged, does not run the pipeline
C4_Idempotent ==
    \A p \in Procs : cyc[p].later => (pc[p] # "advance" /\ ~cyc[p].ran)

\* C5: no stage failure leaves process_goal_if_crossed: every read that
\* entered the pipeline goes on to build its response
C5_NoFailureEscapes == \A p \in Procs : pc[p] # "crashed"

\* C6: a cycle whose burn failed changes neither burned_usd nor
\* supply_burned_pct, and its burn record says that the burn failed
C6_CreditOnlyAfterBurn ==
    [][\A p \in Procs :
          (cyc'[p].burn = "failed" /\ Steps(p))
             => /\ burned_usd' = burned_usd
                /\ supply_burned_pct' = supply_burned_pct
                /\ cyc'[p].recs[Len(cyc'[p].recs)].description = "Burn failed"]_vars

\* the counters and the bucket, which a failed or skipped stage leaves alone
Credits == <<buybacks_usd, burned_usd, supply_burned_pct>>

\* what holds of a cycle whose claim failed, in every state
C7_ClaimFailureState ==
    \A p \in Procs :
        cyc[p].claim = "failed"
            => /\ Len(cyc[p].recs) = 1
               /\ cyc[p].recs[1].kind = "claim"
               /\ cyc[p].recs[1].amount_sol = 0
               /\ cyc[p].recs[1].signature = NoSig
               /\ cyc[p].recs[1].status = "recorded"
               /\ ~cyc[p].buy_called /\ ~cyc[p].burn_called
               /\ cyc[p].buy = "none" /\ cyc[p].burn = "none"
               /\ pc[p] \in {"tx_trim", "respond"}
               /\ cyc[p].ran
\* C7: a cycle whose claim fails appends exactly one record, a claim of
\* amount 0 without signature and with status recorded; it calls neither the
\* buy nor the burn executor, runs no later stage, and none of its steps
\* changes buybacks_usd, burned_usd, supply_burned_pct or last_goal_bucket
\* (the bucket keeps the value the advance of line 236 gave it)
C7_ClaimFailure ==
    /\ []C7_ClaimFailureState
    /\ [][\A p \in Procs :
             (cyc'[p].claim = "failed" /\ Steps(p))
                => UNCHANGED <<Credits, last_goal_bucket>>]_vars

\* C7 witness: a cycle that advanced the bucket and whose claim failed is over
C7_Witness ==
    \E p \in Procs :
        /\ cyc[p].claim = "failed"
        /\ pc[p] = "respond"
        /\ last_goal_bucket = loc[p].current_bucket
        /\ last_goal_bucket > cyc[p].tested

\* what holds of a cycle whose claim succeeded with a quarter that rounds to
\* no positive amount, in every state
C8_NoBuybackState ==
    \A p \in Procs :
        (cyc[p].claim = "ok" /\ BuyAmount(loc[p].claimed_sol) <= 0)
            => /\ ~cyc[p].buy_called /\ ~cyc[p].burn_called
               /\ cyc[p].burn = "none"
               /\ cyc[p].buy \in {"none", "skipped"}
               /\ cyc[p].buy = "none" => pc[p] \in {"tx_trim", "buy"}
               /\ cyc[p].buy = "skipped"
                    => /\ pc[p] \in {"tx_trim", "respond"}
                       /\ Len(cyc[p].recs) = 2
                       /\ cyc[p].recs[1].kind = "claim"
                       /\ cyc[p].recs[1].amount_sol = loc[p].claimed_sol
                       /\ cyc[p].recs[2].kind = "buyback"
                       /\ cyc[p].recs[2].amount_sol = 0
                       /\ cyc[p].recs[2].description = "No buyback"
\* C8: after a successful claim whose quarter rounds to no positive amount
\* the cycle appends a buyback record of amount 0 saying "No buyback" after
\* the claim record and ends: no buy, no burn, no burn record, and none of
\* its steps changes buybacks_usd or burned_usd
C8_NoBuyback ==
    /\ []C8_NoBuybackState
    /\ [][\A p \in Procs :
             (cyc'[p].claim = "ok" /\ BuyAmount(loc'[p].claimed_sol) <= 0
                 /\ Steps(p))
                => UNCHANGED <<buybacks_usd, burned_usd>>]_vars

\* C8 witness: a finished cycle that claimed a positive amount too small to
\* buy with
C8_Witness ==
    \E p \in Procs :
        /\ cyc[p].buy = "skipped"
        /\ loc[p].claimed_sol > 0
        /\ pc[p] = "respond"

\* C9: in a cycle whose three stages succeed with claimed amount X the
\* buyback record holds round(X * 0.25, 6), buybacks_usd grows by exactly
\* that amount times price_usd, burned_usd grows by the same quantity and
\* supply_burned_pct becomes min(100, previous + 0.05)
C9_FullSuccess ==
    /\ [](\A p \in Procs :
            cyc[p].buy = "ok"
               => /\ cyc[p].recs[2].amount_sol = BuyAmount(cyc[p].recs[1].amount_sol)
                  /\ 4 * cyc[p].recs[2].amount_sol - cyc[p].recs[1].amount_sol \in -2..2)
    /\ [][\A p \in Procs :
             /\ (pc[p] = "buybacks_store" /\ Steps(p))
                   => buybacks_usd' = buybacks_usd + cyc[p].credit
             /\ (pc[p] = "burned_store" /\ Steps(p) /\ cyc[p].burn = "ok")
                   => burned_usd' = burned_usd + cyc[p].credit
             /\ (pc[p] = "pct_store" /\ Steps(p) /\ cyc[p].burn = "ok")
                   => supply_burned_pct' = NudgePct(supply_burned_pct)]_vars

\* C10: a cycle appends its records in the order claim, buyback, burn, at
\* most one of each kind; exactly one claim record once the claim stage is
\* done; a buyback record only after a confirmed claim, a burn record only
\* after a confirmed buyback; after a failed stage nothing more is appended
\* and no later stage runs
C10_StageOrder ==
    \A p \in Procs :
        LET r == cyc[p].recs
        IN  /\ Len(r) <= 3
            /\ Len(r) >= 1 => r[1].kind = "claim"
            /\ Len(r) >= 2 => (r[2].kind = "buyback" /\ r[1].status = "confirmed")
            /\ Len(r) >= 3 => (r[3].kind = "burn" /\ r[2].status = "confirmed")
            /\ (cyc[p].ran /\ pc[p] # "claim") => Len(r) >= 1
            /\ (Len(r) >= 1 /\ r[Len(r)].status = "recorded" /\ r[Len(r)].kind # "burn")
                  => pc[p] \in {"tx_trim", "respond"}
            /\ (Len(r) >= 1 /\ r[1].status = "recorded")
                  => (~cyc[p].buy_called /\ ~cyc[p].burn_called)
            /\ (Len(r) >= 2 /\ r[2].status = "recorded") => ~cyc[p].burn_called
            /\ (pc[p] = "tx_trim" /\ r[Len(r)].status = "recorded"
                  /\ r[Len(r)].kind # "burn") => loc[p].cont = "respond"

\* C10 witness: the market cap was bumped from 0 to 110,000, the next read
\* advanced last_goal_bucket to 1 and its cycle appended claim, buyback, burn
C10_Witness ==
    \E p \in Procs :
        /\ cfg.cycles = 0
        /\ market_cap_usd = DEFAULT_DELTA
        /\ last_goal_bucket = 1
        /\ cyc[p].tested = 0
        /\ Len(cyc[p].recs) = 3
        /\ pc[p] = "respond"

\* C11: no dashboard response holds more than 50 transactions, whatever a
\* push_tx of another thread is doing meanwhile; the log changes only by an
\* insert at the front or by a cut that keeps the 50 newest records
C11_LogBounded ==
    /\ [](\A p \in Procs : resp[p].returned => resp[p].transactions <= TX_CAP)
    /\ [][tx' # tx => \/ Tail(tx') = tx
                      \/ tx' = SubSeq(tx, 1, TX_CAP)]_vars

\* C12: every record of the log has status confirmed if its signature is
\* not None and status recorded otherwise, a burn record without signature
\* included; the records that stay in the log stay as they were appended
C12_StatusIffSignature ==
    /\ [](\A i \in 1..Len(tx) :
            /\ tx[i].status \in {"confirmed", "recorded"}
            /\ tx[i].status = "confirmed" <=> tx[i].signature # NoSig)
    /\ [][tx' # tx => \/ Tail(tx') = tx
                      \/ (Len(tx) > TX_CAP /\ tx' = SubSeq(tx, 1, TX_CAP))]_vars

\* C12 witness: the log holds a burn record without signature below a
\* confirmed buy-back record
C12_Witness ==
    \E i \in 1..Len(tx) :
        /\ tx[i].kind = "burn" /\ tx[i].signature = NoSig
        /\ tx[i].status = "recorded"
        /\ i < Len(tx) /\ tx[i + 1].status = "confirmed"

\* ------------------------------------------- the progress of a dashboard read
\* buckets on each side of 0 in which polled market caps lie
MaxBase == 2
\* dollars above the start of the bucket. None is 5 modulo 10: there the
\* progress is a decimal tie of round(x, 2) and the binary error of the float
\* decides the rounding
ProgressOffsets == {0, 1, 4, 6, 9, 14, 16, 50000, 99994, 99996, 99999}
\* market caps a poll finds
ProgressInputs ==
    {b * GOAL_STEP + off : b \in (-MaxBase)..MaxBase, off \in ProgressOffsets}

\* STATE as constructed, then POST /simulate/bump-mc?delta_usd=m for some m;
\* no wallet address is set
ProgressInit ==
    /\ cfg \in {c \in Configs : ~c.wallet_address}
    /\ price_usd = 0
    /\ buybacks_usd = 0
    /\ burned_usd = 0
    /\ market_cap_usd \in ProgressInputs
    /\ supply_burned_pct = 0
    /\ last_goal_bucket = 0
    /\ tx = <<>>
    /\ last_helius_t = 0
    /\ now = StartNow
    /\ ticks = 0
    /\ pc = [p \in Procs |-> "idle"]
    /\ loc = [p \in Procs |-> LocInit]
    /\ bump = Idle
    /\ resp = [p \in Procs |-> NoResp]
    /\ cyc = [p \in Procs |-> CycInit]
    /\ hist = [reads |-> 0, max_bucket |-> Max(0, BucketOf(market_cap_usd)),
               stable |-> FALSE, bumped |-> 0]
    /\ call = NoCall

\* the polls of GET /dashboard
ProgressNext ==
    \/ \E p \in Procs : Start(p)
    \/ \E p \in Procs : ReadMc(p)
    \/ \E p \in Procs : TestBucket(p)
    \/ \E p \in Procs : Advance(p)
    \/ \E p \in Procs : ClaimFail(p)
    \/ \E p \in Procs : Respond(p)

SpecProgress == ProgressInit /\ [][ProgressNext]_vars

\* C13 as stated: the returned progress lies in [0, 100] and is 0 exactly
\* when the returned market cap is a multiple of 100,000
C13_ZeroIffMultiple ==
    \A p \in Procs :
        resp[p].returned
            => /\ resp[p].next_goal_progress_pct \in 0..10000
               /\ resp[p].next_goal_progress_pct = 0
                     <=> resp[p].market_cap_usd % GOAL_STEP = 0

\* C13 as amended: the returned progress lies in [0, 100]; next_goal_usd is
\* the first multiple of 100,000 above the market cap; the progress is 0 when
\* the market cap is a multiple of 100,000, and also when it is less than 5
\* dollars above one, and only then
C13_ZeroNearMultiple ==
    \A p \in Procs :
        resp[p].returned
            => LET mc == resp[p].market_cap_usd
                   bucket_start == resp[p].next_goal_usd - GOAL_STEP
                   pct == resp[p].next_goal_progress_pct
               IN  /\ pct \in 0..10000
                   /\ bucket_start % GOAL_STEP = 0
                   /\ bucket_start <= mc /\ mc < bucket_start + GOAL_STEP
                   /\ mc % GOAL_STEP = 0 => pct = 0
                   /\ pct = 0 <=> mc - bucket_start < 5

\* C13 witness: a response with progress 0 for a market cap that is no
\* multiple of 100,000
C13_Witness ==
    \E p \in Procs :
        /\ resp[p].returned
        /\ resp[p].next_goal_progress_pct = 0
        /\ resp[p].market_cap_usd % GOAL_STEP # 0

\* C14: a refresh that fails, by an exception or by an answer that carries
\* an error and no token info, changes neither price_usd nor market_cap_usd
C14_FailedRefreshKeepsState ==
    [][\A p \in Procs :
          /\ (pc[p] = "fetch" /\ Steps(p) /\ ~loc'[p].info)
                => price_usd' = price_usd
          /\ (pc[p] = "store_mc" /\ Steps(p) /\ ~loc[p].info)
                => market_cap_usd' = market_cap_usd]_vars

\* C15: a call within the TTL of the last successful refresh, or without an
\* API key, sends no request and changes nothing; the cache timestamp is
\* written only by a refresh that succeeded, so that the call after a failed
\* refresh sends the request again
C15_OnlySuccessStartsWindow ==
    [][/\ \A p \in Procs :
             (pc[p] = "idle" /\ Steps(p) /\ RefreshSkipped)
                => (pc'[p] # "fetch"
                    /\ UNCHANGED <<price_usd, market_cap_usd, last_helius_t>>)
       /\ last_helius_t' # last_helius_t
             => \E p \in Procs : pc[p] = "store_mc" /\ Steps(p) /\ loc[p].info]_vars

\* ------------------------------------- the executors, statement by statement
\* raw token units the wallet's token account holds at most
MaxRawBal == 3
\* decimals of the mint
MintDecimals == 1
\* --amount values, in 1e-2 tokens
Amounts == {-10, 0, 5, 10, 25, 40}
\* amount_sol values passed to buy_back_sol, in 1e-6 SOL
BuyAmounts == {-1, 0, 2}

\* int((amount_tokens * factor).to_integral_value(rounding=ROUND_DOWN)) of an
\* amount given in 1e-2 tokens; ROUND_DOWN rounds towards 0
ToRaw(amount_tokens, decimals) ==
    LET scaled == amount_tokens * 10^decimals
    IN  IF scaled >= 0 THEN scaled \div 100 ELSE -((-scaled) \div 100)

\* the exceptions raised by the validation of an amount or a balance
NothingToBurn == "Nothing to burn: token balance is 0"
RoundsToZero == "Amount after decimals rounds to zero"
NotEnough == "Not enough balance to burn the requested amount"
AmountNotPositive == "amount_sol must be > 0"

\* a call of burn_tokens at its first statement: whether the key decodes,
\* whether the wallet's token account exists and what it holds, and the
\* arguments, (None, burn_all=True) or (amount, burn_all=False)
BurnCalls ==
    {[fn |-> "burn_tokens", pc |-> "load_keypair", key_ok |-> k, ata |-> a,
      balance |-> b, burn_all |-> all, amount |-> amt, raw_bal |-> 0,
      raw_to_burn |-> 0, submitted |-> 0, outcome |-> "running"] :
        k \in BOOLEAN, a \in BOOLEAN, b \in 0..MaxRawBal, all \in BOOLEAN,
        amt \in Amounts}
\* a token account that does not exist holds nothing; with burn_all the
\* amount is None (0 here)
BurnCallsAtEntry ==
    {c \in BurnCalls : (~c.ata => c.balance = 0) /\ (c.burn_all => c.amount = 0)}
\* a call of buy_back_sol at its first statement
BuyCallsAtEntry ==
    {[fn |-> "buy_back_sol", pc |-> "buy_validate", key_ok |-> TRUE,
      ata |-> TRUE, balance |-> 0, burn_all |-> FALSE, amount |-> amt,
      raw_bal |-> 0, raw_to_burn |-> 0, submitted |-> 0,
      outcome |-> "running"] : amt \in BuyAmounts}

\* the call ends: it returns a signature or raises `outcome`
Ends(outcome) == [call EXCEPT !.pc = "done", !.outcome = outcome]

\* the state of the backend, which an executor call leaves alone
backend == <<cfg, state, last_helius_t, now, ticks, pc, loc, bump, resp, cyc,
             hist>>

\* burn_tokens, line 78 with load_keypair_from_base58 (34-40)
LoadKeypair ==
    /\ call.fn = "burn_tokens" /\ call.pc = "load_keypair"
    /\ call' = IF call.key_ok THEN [call EXCEPT !.pc = "get_mint_decimals"]
               ELSE Ends("Invalid WALLET_PRIVATE_KEY base58")
    /\ UNCHANGED backend

\* line 81 with get_mint_decimals (42-46): the decimals, or RuntimeError
GetMintDecimals ==
    /\ call.fn = "burn_tokens" /\ call.pc = "get_mint_decimals"
    /\ \/ call' = [call EXCEPT !.pc = "ensure_ata"]
       \/ call' = Ends("Cannot fetch mint supply/decimals")
    /\ UNCHANGED backend

\* line 84 with ensure_ata (58-74): a missing token account is created by a
\* transaction of its own, which is accepted or makes send_transaction raise
EnsureAta ==
    /\ call.fn = "burn_tokens" /\ call.pc = "ensure_ata"
    /\ IF call.ata
         THEN call' = [call EXCEPT !.pc = "read_token_balance_raw"]
         ELSE \/ call' = [call EXCEPT !.pc = "read_token_balance_raw",
                                      !.ata = TRUE,
                                      !.submitted = @ + 1]
              \/ call' = Ends("send_transaction failed")
    /\ UNCHANGED backend

\* line 85 with read_token_balance_raw (48-56)
ReadTokenBalanceRaw ==
    /\ call.fn = "burn_tokens" /\ call.pc = "read_token_balance_raw"
    /\ call' = [call EXCEPT !.pc = "burn_validate",
                            !.raw_bal = IF call.ata THEN call.balance ELSE 0]
    /\ UNCHANGED backend

\* lines 87-100
BurnValidate ==
    /\ call.fn = "burn_tokens" /\ call.pc = "burn_validate"
    /\ call' =
         IF call.raw_bal <= 0 THEN Ends(NothingToBurn)
         ELSE IF call.burn_all
           THEN [call EXCEPT !.pc = "burn_send", !.raw_to_burn = call.raw_bal]
         ELSE LET raw_to_burn == ToRaw(call.amount, MintDecimals)
              IN  IF raw_to_burn <= 0 THEN Ends(RoundsToZero)
                  ELSE IF raw_to_burn > call.raw_bal THEN Ends(NotEnough)
                  ELSE [call EXCEPT !.pc = "burn_send",
                                    !.raw_to_burn = raw_to_burn]
    /\ UNCHANGED backend

\* lines 103-117: the burn transaction is accepted and confirmed, or
\* send_transaction raises
BurnSend ==
    /\ call.fn = "burn_tokens" /\ call.pc = "burn_send"
    /\ \/ call' = [Ends("returned") EXCEPT !.submitted = @ + 1,
                                           !.balance = @ - call.raw_to_burn]
       \/ call' = Ends("send_transaction failed")
    /\ UNCHANGED backend

\* buy_back_sol, lines 190-191
BuyValidate ==
    /\ call.fn = "buy_back_sol" /\ call.pc = "buy_validate"
    /\ call' = IF call.amount <= 0 THEN Ends(AmountNotPositive)
               ELSE [call EXCEPT !.pc = "buy_trade"]
    /\ UNCHANGED backend

\* lines 192-202 with pump_portal_trade_local (122-125): the trade is built,
\* signed and accepted, or one of the requests raises
BuyTrade ==
    /\ call.fn = "buy_back_sol" /\ call.pc = "buy_trade"
    /\ \/ call' = [Ends("returned") EXCEPT !.submitted = @ + 1]
       \/ call' = Ends("Transaction failed")
    /\ UNCHANGED backend

\* one executor call in a backend that is otherwise at rest
ExecInit ==
    /\ cfg \in {c \in Configs : c.wallet_address /\ c.private_key /\ c.cycles = 0}
    /\ price_usd = 0
    /\ buybacks_usd = 0
    /\ burned_usd = 0
    /\ market_cap_usd = 0
    /\ supply_burned_pct = 0
    /\ last_goal_bucket = 0
    /\ tx = <<>>
    /\ last_helius_t = 0
    /\ now = StartNow
    /\ ticks = 0
    /\ pc = [p \in Procs |-> "idle"]
    /\ loc = [p \in Procs |-> LocInit]
    /\ bump = Idle
    /\ resp = [p \in Procs |-> NoResp]
    /\ cyc = [p \in Procs |-> CycInit]
    /\ hist = [reads |-> 0, max_bucket |-> 0, stable |-> FALSE, bumped |-> 0]
    /\ call \in BurnCallsAtEntry \cup BuyCallsAtEntry

ExecNext ==
    \/ LoadKeypair
    \/ GetMintDecimals
    \/ EnsureAta
    \/ ReadTokenBalanceRaw
    \/ BurnValidate
    \/ BurnSend
    \/ BuyValidate
    \/ BuyTrade

SpecExec == ExecInit /\ [][ExecNext]_vars

\* C16: a call that ends in a validation error (buy amount not positive,
\* token balance zero, amount that floors to zero raw units, amount above
\* the balance) has submitted no transaction, the creation of the token
\* account included
C16_FailFast ==
    (call.fn # "none" /\ call.outcome \in {NothingToBurn, RoundsToZero,
                                           NotEnough, AmountNotPositive})
        => call.submitted = 0

C18_CountersMonotone ==
    /\ [](/\ supply_burned_pct \in 0..PCT_MAX
          /\ buybacks_usd >= 0
          /\ burned_usd >= 0)
    /\ [][/\ buybacks_usd' >= buybacks_usd
          /\ burned_usd' >= burned_usd
          /\ supply_burned_pct' >= supply_burned_pct
          /\ Credits' # Credits
                => \E p \in Procs :
                      /\ pc[p] \in {"buybacks_store", "burned_store", "pct_store"}
                      /\ Steps(p)]_vars

\* C19: burned_usd never exceeds buybacks_usd
C19_BurnedAtMostBought == burned_usd <= buybacks_usd

\* C20: the amount a successful claim reports is at most the fees the claim
\* transferred to the wallet (to the rounding of round(x, 6)), whichever of
\* the two balance reads failed, and the buy-back spends at most the rounded
\* quarter of those fees
C20_ClaimedAtMostFees ==
    \A p \in Procs :
        cyc[p].claim = "ok"
            => LET fees == RoundHalfEven(cyc[p].fee, LAMPORTS_PER_MICRO)
               IN  /\ loc[p].claimed_sol <= fees
                   /\ loc[p].buy_amount <= BuyAmount(fees)

\* ------------------------------------------- a backend whose threads keep running
\* the configurations in which every stage of a cycle can succeed, before the
\* first cycle; without an API key no refresh is sent
LiveConfigs ==
    {c \in Configs : c.wallet_address /\ c.private_key /\ ~c.helius_key
                       /\ c.cycles = 0}

LiveInit == Init /\ cfg \in LiveConfigs

\* the next statement of the thread that serves a request: every statement
\* of get_dashboard after the request's arrival. Each stage's external calls
\* return or raise within the step
Run(p) ==
    \/ ReadMc(p)
    \/ TestBucket(p)
    \/ Advance(p)
    \/ ClaimFail(p)
    \/ ClaimOk(p)
    \/ NoBuyback(p)
    \/ BuyFail(p)
    \/ BuyOk(p)
    \/ BuybacksLoad(p)
    \/ BuybacksStore(p)
    \/ BurnExit(p)
    \/ BurnRaise(p)
    \/ BurnOk(p)
    \/ BurnedLoad(p)
    \/ BurnedStore(p)
    \/ PctLoad(p)
    \/ PctStore(p)
    \/ Respond(p)

LiveNext ==
    \/ \E p \in Procs : Start(p)
    \/ \E p \in Procs : Run(p)
    \/ \E d \in Deltas : BumpLoad(d)
    \/ BumpStore

\* the operating system schedules every thread that is inside a handler until
\* the handler is left; no request has to arrive
SpecLive ==
    /\ LiveInit
    /\ [][LiveNext]_vars
    /\ \A p \in Procs : WF_vars(Run(p))
    /\ WF_vars(BumpStore)

\* C21: a read that advanced last_goal_bucket eventually appends its claim
\* record, its cycle appends at most three records and comes to its end, and
\* the read eventually returns its response
C21_EveryCrossingAnswered ==
    /\ \A p \in Procs : (pc[p] = "claim") ~> (cyc[p].claim # "none")
    /\ [](\A p \in Procs : Len(cyc[p].recs) <= 3)
    /\ \A p \in Procs : cyc[p].ran ~> CycleOver(p)
    /\ \A p \in Procs : cyc[p].ran ~> resp[p].returned

====
